---- MODULE Spec2Model ----
(***************************************************************************)
(* A model of the adaptive synchronization hooks (servers/adaptive_sync.py *)
(* and clients/adaptive_sync.py) and of the FedSarah optimizer             *)
(* (utils/fedsarah_optimizer.py).                                          *)
(*                                                                         *)
(* Three specifications share the variables:                               *)
(*   ClientSpec    process_server_response called with arbitrary responses *)
(*   ProtocolSpec  rounds of the server hook, the channel and the client   *)
(*   OptSpec       the optimizer under step / params_state_update calls    *)
(***************************************************************************)
EXTENDS Integers, Sequences, FiniteSets, TLC

\* Python's None, and a value that is not None
None == <<>>
Some(x) == <<x>>

(***************************************************************************)
(* Bounds of the model.                                                    *)
(***************************************************************************)
NumClients == 2
MaxSync == 2
MaxQueue == 1
MaxRounds == 2
MaxCalls == 3
InitialEpochs == 5

Clients == 1..NumClients
SyncValues == 1..MaxSync
Objs == 1..NumClients

(***************************************************************************)
(* Python dictionaries are functions with a finite set of string keys.     *)
(***************************************************************************)
EmptyDict == [k \in {} |-> None]

HasKey(d, k) == k \in DOMAIN d

\* d[k] = v, as Python's item assignment: adds the key or overwrites it
SetItem(d, k, v) == [x \in (DOMAIN d) \cup {k} |-> IF x = k THEN v ELSE d[x]]

\* The responses the framework's round loop can build for client c before the
\* hook runs: 'id' always, 'payload' and an earlier 'sync_frequency' optional.
BuiltResponses(c) ==
    { [k \in D |-> IF k = "id" THEN c ELSE IF k = "payload" THEN TRUE ELSE v] :
        D \in { {"id"} \cup S : S \in SUBSET {"payload", "sync_frequency"} },
        v \in SyncValues }

VARIABLES
    sync_frequency,   \* server: self.trainer.sync_frequency
    heap,             \* server: the response dictionaries, by object identity
    arg,              \* server: per client, the object handed to the hook (or None)
    returned,         \* server: per client, the object the hook returned (or None)
    channel,          \* per client, the responses sent and not yet processed
    trainer,          \* per client process, Config().trainer
    callArg,          \* history: per client, the dictionary as it was when the hook was called
    callSf,           \* history: per client, sync_frequency when the hook was called
    lastStamp,        \* history: per client, callSf of the response processed last
    rounds,           \* history: the number of responses built so far
    calls             \* history: the responses client 1 processed so far (ClientSpec)

syncVars == <<sync_frequency, heap, arg, returned, channel, trainer,
              callArg, callSf, lastStamp, rounds, calls>>

\* The optimizer's bounds and state (utils/fedsarah_optimizer.py, below)
MaxParams == 3
MaxGroups == 2
MaxGradShift == 0
MaxCounter == 2
MaxOps == 3
Lr == 2

VARIABLES
    param_groups,             \* self.param_groups: per group, params and hyperparameters
    data,                     \* p.data of every parameter
    grad,                     \* p.grad of every parameter: None or Some(g)
    momentum_buffer,          \* self.state[p]['momentum_buffer']: None or Some(b)
    server_control_variates,  \* None or Some(list of values)
    client_control_variates,  \* None or Some(list of entries [alias, val])
    client_id,
    max_counter,              \* None or Some(N)
    epoch_counter,
    saved,                    \* the file new_client_control_variates_<client_id>.pth
    saveLog,                  \* history: every torch.save, with the call it happened in
    owner,                    \* history: the parameter each control-variate entry was made for
    lastCall,                 \* history: the method called last
    raised,                   \* the last call ended in an exception
    ops                       \* history: the number of optimizer calls so far

optVars == <<param_groups, data, grad, momentum_buffer, server_control_variates,
             client_control_variates, client_id, max_counter, epoch_counter,
             saved, saveLog, owner, lastCall, raised, ops>>

vars == <<syncVars, optVars>>

(***************************************************************************)
(* servers/adaptive_sync.py                                                *)
(***************************************************************************)
\* A hook that builds a new dictionary instead of updating the one it is given.
customize_server_response_fresh(server_response, trainer_sync_frequency) ==
    SetItem(EmptyDict, "sync_frequency", trainer_sync_frequency)

\* A hook that keeps a 'sync_frequency' the response already carries.
customize_server_response_setdefault(server_response, trainer_sync_frequency) ==
    IF HasKey(server_response, "sync_frequency")
    THEN server_response
    ELSE SetItem(server_response, "sync_frequency", trainer_sync_frequency)

\* server_response['sync_frequency'] = self.trainer.sync_frequency
customize_server_response(server_response, trainer_sync_frequency) ==
    SetItem(server_response, "sync_frequency", trainer_sync_frequency)

(***************************************************************************)
(* clients/adaptive_sync.py                                                *)
(***************************************************************************)
\* A client that only ever raises the number of epochs.
process_server_response_raise(config_trainer, server_response) ==
    IF HasKey(server_response, "sync_frequency")
          /\ server_response["sync_frequency"] > config_trainer.epochs
    THEN [config_trainer EXCEPT !.epochs = server_response["sync_frequency"]]
    ELSE config_trainer

\* if 'sync_frequency' in server_response:
\*     Config().trainer = Config().trainer._replace(epochs=...)
process_server_response(config_trainer, server_response) ==
    IF HasKey(server_response, "sync_frequency")
    THEN [config_trainer EXCEPT !.epochs = server_response["sync_frequency"]]
    ELSE config_trainer

(***************************************************************************)
(* The round loop around the two hooks.  The framework builds one response *)
(* dictionary per client, passes it through the server's hook, sends what  *)
(* the hook returned to the client's process, and the client runs its hook *)
(* on what it receives.  Every client process has its own Config().        *)
(***************************************************************************)
InitSync ==
    /\ sync_frequency \in SyncValues
    /\ heap = [o \in Objs |-> EmptyDict]
    /\ arg = [c \in Clients |-> None]
    /\ returned = [c \in Clients |-> None]
    /\ channel = [c \in Clients |-> <<>>]
    /\ trainer = [c \in Clients |-> [epochs |-> InitialEpochs, lr_scheduler |-> "timm"]]
    /\ callArg = [c \in Clients |-> EmptyDict]
    /\ callSf = [c \in Clients |-> None]
    /\ lastStamp = [c \in Clients |-> None]
    /\ rounds = 0
    /\ calls = <<>>

FreeObjs == Objs \ {arg[c][1] : c \in {x \in Clients : arg[x] # None}}

\* The server trainer changes its synchronization frequency between rounds.
AdjustSyncFrequency(v) ==
    /\ v # sync_frequency
    /\ sync_frequency' = v
    /\ UNCHANGED <<heap, arg, returned, channel, trainer, callArg, callSf,
                   lastStamp, rounds, calls, optVars>>

\* The round loop creates the response for client c.
BuildResponse(c, d) ==
    /\ arg[c] = None
    /\ rounds < MaxRounds
    /\ LET o == CHOOSE x \in FreeObjs : \A y \in FreeObjs : x <= y
       IN /\ heap' = [heap EXCEPT ![o] = d]
          /\ arg' = [arg EXCEPT ![c] = Some(o)]
    /\ rounds' = rounds + 1
    /\ UNCHANGED <<sync_frequency, returned, channel, trainer, callArg, callSf,
                   lastStamp, calls, optVars>>

\* AdaptiveSyncServer.customize_server_response(server_response): the
\* dictionary is updated in place and the same object is returned.
CustomizeServerResponse(c) ==
    /\ arg[c] # None
    /\ returned[c] = None
    /\ heap' = [heap EXCEPT ![arg[c][1]] =
                    customize_server_response(heap[arg[c][1]], sync_frequency)]
    /\ returned' = [returned EXCEPT ![c] = arg[c]]
    /\ callArg' = [callArg EXCEPT ![c] = heap[arg[c][1]]]
    /\ callSf' = [callSf EXCEPT ![c] = Some(sync_frequency)]
    /\ UNCHANGED <<sync_frequency, arg, channel, trainer, lastStamp, rounds, calls,
                   optVars>>

\* The round loop sends what the hook returned to client c.
SendResponse(c) ==
    /\ returned[c] # None
    /\ Len(channel[c]) < MaxQueue
    /\ channel' = [channel EXCEPT ![c] =
                       Append(@, [response |-> heap[returned[c][1]], stamp |-> callSf[c]])]
    /\ heap' = [heap EXCEPT ![arg[c][1]] = EmptyDict]
    /\ arg' = [arg EXCEPT ![c] = None]
    /\ returned' = [returned EXCEPT ![c] = None]
    /\ callArg' = [callArg EXCEPT ![c] = EmptyDict]
    /\ callSf' = [callSf EXCEPT ![c] = None]
    /\ UNCHANGED <<sync_frequency, trainer, lastStamp, rounds, calls, optVars>>

\* AdaptiveSyncClient.process_server_response(server_response) in the process
\* of client c, on the response it receives.
ProcessServerResponse(c) ==
    /\ channel[c] # <<>>
    /\ trainer' = [trainer EXCEPT ![c] =
                       process_server_response(@, Head(channel[c]).response)]
    /\ lastStamp' = [lastStamp EXCEPT ![c] = Head(channel[c]).stamp]
    /\ channel' = [channel EXCEPT ![c] = Tail(@)]
    /\ UNCHANGED <<sync_frequency, heap, arg, returned, callArg, callSf, rounds, calls,
                   optVars>>

\* The responses a client can be called with: with or without the field.
AnyResponses ==
    { [k \in D |-> IF k = "id" THEN 1 ELSE IF k = "payload" THEN TRUE ELSE v] :
        D \in { {"id"} \cup S : S \in SUBSET {"payload", "sync_frequency"} },
        v \in SyncValues }

\* AdaptiveSyncClient.process_server_response(d) called directly on client 1.
CallProcessServerResponse(d) ==
    /\ Len(calls) < MaxCalls
    /\ trainer' = [trainer EXCEPT ![1] = process_server_response(@, d)]
    /\ calls' = Append(calls, d)
    /\ UNCHANGED <<sync_frequency, heap, arg, returned, channel, callArg, callSf,
                   lastStamp, rounds, optVars>>

NextProtocol ==
    \/ \E v \in SyncValues : AdjustSyncFrequency(v)
    \/ \E c \in Clients : \E d \in BuiltResponses(c) : BuildResponse(c, d)
    \/ \E c \in Clients : CustomizeServerResponse(c)
    \/ \E c \in Clients : SendResponse(c)
    \/ \E c \in Clients : ProcessServerResponse(c)

NextClient == \E d \in AnyResponses : CallProcessServerResponse(d)


(***************************************************************************)
(* utils/fedsarah_optimizer.py.  A tensor is modelled by one integer.      *)
(* Parameters are numbered 1..n over all groups.  A client control variate *)
(* stored by params_state_update is p.grad.data, which shares its storage  *)
(* with p.grad: such an entry is an alias of the gradient of parameter     *)
(* `alias` and reads whatever that gradient holds; an entry with alias 0   *)
(* is a value of its own.                                                  *)
(***************************************************************************)

Min(a, b) == IF a < b THEN a ELSE b

RECURSIVE SumSeq(_)
SumSeq(q) == IF q = <<>> THEN 0 ELSE Head(q) + SumSeq(Tail(q))

\* The ways to split at most MaxParams parameters into at most MaxGroups groups
GroupSizes ==
    { q \in UNION { [1..n -> 1..MaxParams] : n \in 1..MaxGroups } :
        SumSeq(q) <= MaxParams }

\* The parameters of group gi when the groups have sizes q
ParamsOfGroup(q, gi) ==
    [i \in 1..q[gi] |-> SumSeq(SubSeq(q, 1, gi - 1)) + i]

\* Hyperparameters optim.SGD accepts (nesterov needs momentum and no dampening):
\* plain SGD, weight decay alone, momentum alone, Nesterov momentum
Hypers ==
    { h \in [lr : {Lr}, momentum : {0, 1}, dampening : {0},
             weight_decay : {0, 1}, nesterov : BOOLEAN] :
        /\ h.nesterov => h.momentum # 0
        /\ h.weight_decay # 0 => h.momentum = 0 }

Params == DOMAIN data

Value(entry, grads) ==
    IF entry.alias # 0 THEN grads[entry.alias][1] ELSE entry.val

ValuesOf(entries, grads) == [i \in 1..Len(entries) |-> Value(entries[i], grads)]

Own(v) == [alias |-> 0, val |-> v]

Zeros(n) == [i \in 1..n |-> 0]

\* FedSarahOptimizer.step, the body of the loop over the zipped parameters:
\* st holds p.data, p.grad and the momentum buffers as the loop has left them.
StepParam(st, group, p, client_control_variate, server_control_variate) ==
    IF st.grad[p] = None THEN st
    ELSE
      LET \* d_p = p.grad.data; d_p.add_(weight_decay, p.data) changes p.grad too
          grad1 == IF group.weight_decay # 0
                   THEN [st.grad EXCEPT ![p] =
                            Some(@[1] + group.weight_decay * st.data[p])]
                   ELSE st.grad
          g == grad1[p][1]
          buf == IF group.momentum = 0 THEN st.buf[p]
                 ELSE IF st.buf[p] = None THEN Some(g)
                 ELSE Some(st.buf[p][1] * group.momentum + (1 - group.dampening) * g)
          d_p == IF group.momentum = 0 THEN g
                 ELSE IF group.nesterov THEN g + group.momentum * buf[1]
                 ELSE buf[1]
          \* torch.sub(server_control_variate, client_control_variate), then
          \* torch.add(d_p, ...)
          control_variate_batch ==
              d_p + (server_control_variate - Value(client_control_variate, grad1))
      IN [data |-> [st.data EXCEPT ![p] = @ - group.lr * control_variate_batch],
          grad |-> grad1,
          buf  |-> [st.buf EXCEPT ![p] = buf]]

\* for p, c, s in zip(group['params'], client_control_variates,
\* server_control_variates): the loop stops with the shortest of the three
RECURSIVE StepZip(_, _, _, _, _)
StepZip(st, group, ccv, scv, i) ==
    IF i > Min(Len(group.params), Min(Len(ccv), Len(scv))) THEN st
    ELSE StepZip(StepParam(st, group, group.params[i], ccv[i], scv[i]),
                 group, ccv, scv, i + 1)

\* The control variates a group finds: created for this group when
\* server_control_variates is None, else the lists as they are
StepInit(cv, group) ==
    IF cv.s = None
    THEN [c |-> Some([i \in 1..Len(group.params) |-> Own(0)]),
          s |-> Some(Zeros(Len(group.params))),
          o |-> group.params]
    ELSE cv

\* for group in self.param_groups
RECURSIVE StepGroups(_, _, _, _)
StepGroups(st, cv, groups, gi) ==
    IF gi > Len(groups) THEN [st |-> st, cv |-> cv]
    ELSE LET cv1 == StepInit(cv, groups[gi])
         IN StepGroups(StepZip(st, groups[gi], cv1.c[1], cv1.s[1], 1),
                       cv1, groups, gi + 1)

\* FedSarahOptimizer.params_state_update, the loop over the zipped parameters
\* of one group.  acc holds new_client_control_variates, new_server_control_variates
\* (and the owners); from the second group on the lists zipped over are these
\* same list objects, which grow while the loop runs.
RECURSIVE UpdateZip(_, _, _, _, _, _, _)
UpdateZip(acc, params, ccv, scv, aliased, j, grads) ==
    LET curC == IF aliased THEN acc.c ELSE ccv
        curS == IF aliased THEN acc.s ELSE scv
    IN IF j > Len(params) \/ j > Len(curC) \/ j > Len(curS) THEN acc
       ELSE IF grads[params[j]] = None
            THEN UpdateZip(acc, params, ccv, scv, aliased, j + 1, grads)
            ELSE LET g == grads[params[j]][1]
                     server_control_variate_update ==
                         g + (curS[j] - Value(curC[j], grads))
                 IN UpdateZip([c |-> Append(acc.c, [alias |-> params[j], val |-> 0]),
                               s |-> Append(acc.s, server_control_variate_update),
                               o |-> Append(acc.o, params[j])],
                              params, ccv, scv, aliased, j + 1, grads)

\* for group in self.param_groups: the zip loop, then the assignment of the
\* new lists and the save, all inside the loop over the groups
RECURSIVE UpdateGroups(_, _, _, _, _, _, _, _)
UpdateGroups(acc, log, ccv, scv, groups, gi, grads, counters) ==
    IF gi > Len(groups) THEN [acc |-> acc, log |-> log]
    ELSE LET acc1 == UpdateZip(acc, groups[gi].params, ccv, scv, gi > 1, 1, grads)
             log1 == IF Some(counters.epoch) = counters.max
                     THEN Append(log, [call |-> counters.epoch,
                                       content |-> ValuesOf(acc1.c, grads)])
                     ELSE log
         IN UpdateGroups(acc1, log1, ccv, scv, groups, gi + 1, grads, counters)

\* FedSarahOptimizer.__init__(params, lr, ...), followed by what the trainer
\* sets on the new optimizer: max_counter, and either no control variates
\* (the first round) or the lists of an earlier round, one entry per parameter.
InitOptimizer(sizes, hyper, preset, maxc) ==
    LET n == SumSeq(sizes)
    IN /\ param_groups =
              [gi \in 1..Len(sizes) |->
                  [params |-> ParamsOfGroup(sizes, gi), lr |-> hyper.lr,
                   momentum |-> hyper.momentum, dampening |-> hyper.dampening,
                   weight_decay |-> hyper.weight_decay, nesterov |-> hyper.nesterov]]
       /\ data = [p \in 1..n |-> p]
       /\ grad = [p \in 1..n |-> None]
       /\ momentum_buffer = [p \in 1..n |-> None]
       /\ server_control_variates = IF preset THEN Some([i \in 1..n |-> i]) ELSE None
       /\ client_control_variates = IF preset THEN Some([i \in 1..n |-> Own(1)]) ELSE None
       /\ owner = IF preset THEN [i \in 1..n |-> i] ELSE <<>>
       /\ client_id = None
       /\ max_counter = maxc
       /\ epoch_counter = 0
       /\ saved = None
       /\ saveLog = <<>>
       /\ lastCall = "none"
       /\ raised = FALSE
       /\ ops = 0

\* The gradients of a batch: a parameter the loss does not depend on has none
GradChoices ==
    { [p \in Params |-> IF p \in S THEN Some(p + k) ELSE None] :
        S \in SUBSET Params, k \in 0..MaxGradShift }

\* The training loop computes the gradients of a batch (zero_grad, backward).
\* With inplace the gradient tensors that exist are zeroed and accumulated into
\* in place, so that every alias of them sees the new gradient; otherwise
\* p.grad is replaced by a new tensor and an alias keeps the old value.
Backward(gs, inplace) ==
    /\ ~raised
    /\ ops < MaxOps
    /\ lastCall # "backward"
    /\ grad' = gs
    /\ client_control_variates' =
          IF client_control_variates = None THEN None
          ELSE Some([i \in 1..Len(client_control_variates[1]) |->
                  LET e == client_control_variates[1][i]
                  IN IF e.alias = 0 THEN e
                     ELSE IF inplace /\ gs[e.alias] # None THEN e
                     ELSE Own(grad[e.alias][1])])
    /\ lastCall' = "backward"
    /\ UNCHANGED <<param_groups, data, momentum_buffer, server_control_variates,
                   client_id, max_counter, epoch_counter, saved, saveLog, owner,
                   raised, ops, syncVars>>

\* FedSarahOptimizer.step() (closure=None)
Step ==
    /\ ~raised
    /\ ops < MaxOps
    /\ LET r == StepGroups([data |-> data, grad |-> grad, buf |-> momentum_buffer],
                           [c |-> client_control_variates,
                            s |-> server_control_variates, o |-> owner],
                           param_groups, 1)
       IN /\ data' = r.st.data
          /\ grad' = r.st.grad
          /\ momentum_buffer' = r.st.buf
          /\ client_control_variates' = r.cv.c
          /\ server_control_variates' = r.cv.s
          /\ owner' = r.cv.o
    /\ lastCall' = "step"
    /\ ops' = ops + 1
    /\ UNCHANGED <<param_groups, client_id, max_counter, epoch_counter, saved,
                   saveLog, raised, syncVars>>

\* FedSarahOptimizer.params_state_update(); zip() over a list that is None
\* raises TypeError after epoch_counter was incremented
ParamsStateUpdate ==
    /\ ~raised
    /\ ops < MaxOps
    /\ epoch_counter' = epoch_counter + 1
    /\ lastCall' = "params_state_update"
    /\ ops' = ops + 1
    /\ IF client_control_variates = None \/ server_control_variates = None
       THEN /\ raised' = TRUE
            /\ UNCHANGED <<client_control_variates, server_control_variates,
                           owner, saveLog, saved>>
       ELSE LET r == UpdateGroups([c |-> <<>>, s |-> <<>>, o |-> <<>>], saveLog,
                                  client_control_variates[1],
                                  server_control_variates[1], param_groups, 1, grad,
                                  [epoch |-> epoch_counter + 1, max |-> max_counter])
            IN /\ client_control_variates' = Some(r.acc.c)
               /\ server_control_variates' = Some(r.acc.s)
               /\ owner' = r.acc.o
               /\ saveLog' = r.log
               /\ saved' = IF Len(r.log) > Len(saveLog)
                           THEN Some(r.log[Len(r.log)].content) ELSE saved
               /\ raised' = FALSE
    /\ UNCHANGED <<param_groups, data, grad, momentum_buffer, client_id, max_counter,
                   syncVars>>

DefaultHyper ==
    [lr |-> Lr, momentum |-> 0, dampening |-> 0, weight_decay |-> 0, nesterov |-> FALSE]

InitOpt ==
    \E sizes \in GroupSizes : \E hyper \in Hypers : \E preset \in BOOLEAN :
        \E maxc \in {None} \cup {Some(n) : n \in 1..MaxCounter} :
            InitOptimizer(sizes, hyper, preset, maxc)

NextOpt ==
    \/ \E gs \in GradChoices : \E inplace \in BOOLEAN : Backward(gs, inplace)
    \/ Step
    \/ ParamsStateUpdate

\* The optimizer of a client that is not training
IdleOptimizer == InitOptimizer(<<1>>, DefaultHyper, FALSE, None)

\* The hooks, in a process whose optimizer is idle
InitProtocol == InitSync /\ IdleOptimizer

\* The optimizer, in a process that exchanges no responses
InitTraining == InitSync /\ sync_frequency = 1 /\ InitOpt

ProtocolSpec == InitProtocol /\ [][NextProtocol]_vars

ClientSpec == InitProtocol /\ [][NextClient]_vars

OptSpec == InitTraining /\ [][NextOpt]_vars

(***************************************************************************)
(* Properties of the synchronization hooks.                                *)
(***************************************************************************)
\* C1: while the server holds a response that went through
\* customize_server_response, the object returned is the one passed in, its
\* field 'sync_frequency' is the server trainer's sync_frequency at the time
\* of the call (replacing any earlier value), it has no other new field, and
\* every other field is as it was before the call.
C1_CustomizeSetsOnlySyncFrequency ==
    \A c \in Clients :
        returned[c] # None =>
            /\ returned[c] = arg[c]
            /\ DOMAIN heap[returned[c][1]] = (DOMAIN callArg[c]) \cup {"sync_frequency"}
            /\ Some(heap[returned[c][1]]["sync_frequency"]) = callSf[c]
            /\ \A k \in (DOMAIN callArg[c]) \ {"sync_frequency"} :
                   heap[returned[c][1]][k] = callArg[c][k]

\* A customized response that carried another 'sync_frequency' and a payload
\* before the call, with the server's sync_frequency changed since the call.
C1_Witness ==
    \E c \in Clients :
        /\ returned[c] # None
        /\ HasKey(callArg[c], "payload")
        /\ HasKey(callArg[c], "sync_frequency")
        /\ Some(callArg[c]["sync_frequency"]) # callSf[c]
        /\ Some(sync_frequency) # callSf[c]

\* The epochs the claim predicts after the calls in log: the 'sync_frequency'
\* of the last response that carries one, else the initial epochs.
RECURSIVE LastCarried(_)
LastCarried(log) ==
    IF log = <<>> THEN InitialEpochs
    ELSE IF HasKey(log[Len(log)], "sync_frequency")
         THEN log[Len(log)]["sync_frequency"]
         ELSE LastCarried(SubSeq(log, 1, Len(log) - 1))

\* C2: after any sequence of process_server_response calls the configured
\* epochs equal the 'sync_frequency' of the most recent response that carried
\* the field, or the initial epochs when none did.
C2_EpochsFollowLastCarried ==
    trainer[1].epochs = LastCarried(calls)

\* Two responses with different 'sync_frequency' and then one without it.
C2_Witness ==
    /\ Len(calls) = 3
    /\ HasKey(calls[1], "sync_frequency")
    /\ HasKey(calls[2], "sync_frequency")
    /\ calls[1]["sync_frequency"] > calls[2]["sync_frequency"]
    /\ ~HasKey(calls[3], "sync_frequency")
    /\ trainer[1].epochs = calls[2]["sync_frequency"]

GroupOf(p) ==
    CHOOSE gi \in DOMAIN param_groups :
        \E i \in DOMAIN param_groups[gi].params : param_groups[gi].params[i] = p

IndexOf(p) ==
    CHOOSE i \in DOMAIN param_groups[GroupOf(p)].params :
        param_groups[GroupOf(p)].params[i] = p

PlainSGD ==
    \A gi \in DOMAIN param_groups :
        param_groups[gi].momentum = 0 /\ param_groups[gi].weight_decay = 0

\* C4: a step with momentum = 0 and weight_decay = 0, on control variates that
\* exist (C7 is about the step that creates them), leaves a parameter without
\* gradient unchanged and moves every parameter p with gradient g to
\* p - lr * (g + server_control_variate - client_control_variate), the control
\* variates being those of p's position.
C4_StepAppliesVarianceReduction ==
    [][(lastCall' = "step" /\ PlainSGD /\ server_control_variates # None) =>
          \A p \in Params :
              IF grad[p] = None THEN data'[p] = data[p]
              ELSE /\ IndexOf(p) <= Len(client_control_variates[1])
                   /\ IndexOf(p) <= Len(server_control_variates[1])
                   /\ data'[p] = data[p] - param_groups[GroupOf(p)].lr *
                         (grad[p][1] + server_control_variates[1][IndexOf(p)]
                            - Value(client_control_variates[1][IndexOf(p)], grad))]_vars

\* C5: a call of params_state_update adds 1 to epoch_counter, leaves the
\* parameters alone and, for every parameter with gradient g whose control
\* variates before the call are (c, s), makes its client control variate g
\* and its server control variate g + s - c.
C5_UpdateSetsControlVariates ==
    [][lastCall' = "params_state_update" =>
          /\ epoch_counter' = epoch_counter + 1
          /\ data' = data
          /\ \A p \in Params :
                (/\ ~raised'
                 /\ grad[p] # None
                 /\ IndexOf(p) <= Len(client_control_variates[1])
                 /\ IndexOf(p) <= Len(server_control_variates[1])) =>
                    /\ IndexOf(p) <= Len(client_control_variates'[1])
                    /\ IndexOf(p) <= Len(server_control_variates'[1])
                    /\ Value(client_control_variates'[1][IndexOf(p)], grad') = grad[p][1]
                    /\ server_control_variates'[1][IndexOf(p)] =
                          grad[p][1] + server_control_variates[1][IndexOf(p)]
                            - Value(client_control_variates[1][IndexOf(p)], grad)]_vars

\* C6: with max_counter = N the client control variates are saved exactly
\* once, in the N-th call of params_state_update, with the content that call
\* left in client_control_variates; before the N-th call, and with max_counter
\* None, nothing was saved.
C6_SavedExactlyOnceInNthCall ==
    ~raised =>
        IF max_counter # None /\ epoch_counter >= max_counter[1]
        THEN /\ Len(saveLog) = 1
             /\ saveLog[1].call = max_counter[1]
             /\ saved = Some(saveLog[1].content)
             /\ (lastCall = "params_state_update" /\ epoch_counter = max_counter[1]) =>
                    saveLog[1].content = ValuesOf(client_control_variates[1], grad)
        ELSE saveLog = <<>> /\ saved = None

\* C7: a step with momentum = 0 and weight_decay = 0 that finds
\* server_control_variates None leaves both lists holding one zero per
\* parameter of the group and moves every parameter as plain SGD does (p - lr * g,
\* unchanged without gradient); a step that finds control variates keeps them.
C7_FirstStepIsPlainSGD ==
    [][(lastCall' = "step" /\ PlainSGD) =>
          IF server_control_variates = None
          THEN /\ server_control_variates' = Some(Zeros(Len(param_groups[1].params)))
               /\ client_control_variates' =
                     Some([i \in 1..Len(param_groups[1].params) |-> Own(0)])
               /\ \A p \in Params :
                     data'[p] = IF grad[p] = None THEN data[p]
                                ELSE data[p] - param_groups[GroupOf(p)].lr * grad[p][1]
          ELSE /\ server_control_variates' = server_control_variates
               /\ client_control_variates' = client_control_variates]_vars

\* C8: after any calls of step and params_state_update the two lists hold, for
\* every group, one entry per parameter of the group, the i-th entry being the
\* control variate of the group's i-th parameter.
C8_ListsAlignedWithParameters ==
    (lastCall \in {"step", "params_state_update"} /\ ~raised) =>
        \A gi \in DOMAIN param_groups :
            /\ Len(client_control_variates[1]) = Len(param_groups[gi].params)
            /\ Len(server_control_variates[1]) = Len(param_groups[gi].params)
            /\ owner = param_groups[gi].params

====
